---------------------------- MODULE Spec2Model ----------------------------
(***************************************************************************)
(* A model of the virtual file system of src/harness2/vfs.ts together with *)
(* the path utilities (vpath) and the string comparison (utils) it uses.   *)
(*                                                                         *)
(* Strings are sequences of one-character strings, so that the path        *)
(* functions are computed character by character as the code does.         *)
(* Objects live in a heap (a sequence of records); an object reference is  *)
(* its index, and 0 stands for undefined.  The variable call holds one     *)
(* call of vpath.relative: its arguments and, once it returned, its result.*)
(* builtLocal is the static VirtualFileSystem.builtLocal (0: undefined).   *)
(***************************************************************************)
EXTENDS Integers, Sequences, FiniteSets, TLC

VARIABLES heap, fss, call, builtLocal

vars == <<heap, fss, call, builtLocal>>

(***************************************************************************)
(* Bounds of the model.                                                    *)
(***************************************************************************)
MaxObjs == 8
MaxFs == 2
\* the longest path normalize is called with
MaxLen == 6


Max(a, b) == IF a >= b THEN a ELSE b

(***************************************************************************)
(* utils.ts                                                                *)
(***************************************************************************)
LowerLetters == {"a", "b", "c", "d", "f", "r", "s", "x", "y"}
UpperLetters == {"A", "B", "C", "D", "F", "R", "S", "X", "Y"}
Letters == LowerLetters \cup UpperLetters

\* String.prototype.toUpperCase on one character
toUpperChar(c) ==
    CASE c = "a" -> "A" [] c = "b" -> "B" [] c = "c" -> "C" [] c = "d" -> "D"
      [] c = "f" -> "F" [] c = "r" -> "R" [] c = "s" -> "S" [] c = "x" -> "X"
      [] c = "y" -> "Y" [] OTHER -> c

toUpperCase(s) == [i \in 1..Len(s) |-> toUpperChar(s[i])]

\* code unit order of the characters of the model's alphabet
Ord(c) ==
    CASE c = "." -> 46 [] c = "/" -> 47 [] c = ":" -> 58 [] c = "\\" -> 92
      [] c = "A" -> 65 [] c = "B" -> 66 [] c = "C" -> 67 [] c = "D" -> 68
      [] c = "F" -> 70 [] c = "R" -> 82 [] c = "S" -> 83 [] c = "X" -> 88
      [] c = "Y" -> 89
      [] c = "a" -> 97 [] c = "b" -> 98 [] c = "c" -> 99 [] c = "d" -> 100
      [] c = "f" -> 102 [] c = "r" -> 114 [] c = "s" -> 115 [] c = "x" -> 120
      [] c = "y" -> 121 [] OTHER -> 0

RECURSIVE StrLess(_, _)
StrLess(a, b) ==
    IF b = <<>> THEN FALSE
    ELSE IF a = <<>> THEN TRUE
    ELSE IF Ord(a[1]) # Ord(b[1]) THEN Ord(a[1]) < Ord(b[1])
    ELSE StrLess(Tail(a), Tail(b))

\* compareStrings(a, b, ignoreCase): 0 when equal (ignoring case when ignoreCase)
compareStrings(a, b, ignoreCase) ==
    LET Order(x, y) == IF StrLess(x, y) THEN -1 ELSE IF StrLess(y, x) THEN 1 ELSE 0 IN
    IF a = b THEN 0
    ELSE IF ignoreCase THEN Order(toUpperCase(a), toUpperCase(b))
    ELSE Order(a, b)

(***************************************************************************)
(* vpath.ts                                                                *)
(***************************************************************************)
normalizeSlashes(path) == [i \in 1..Len(path) |-> IF path[i] = "\\" THEN "/" ELSE path[i]]

\* first index >= from at which s holds ch, or 0
RECURSIVE IndexFrom(_, _, _)
IndexFrom(s, ch, from) ==
    IF from > Len(s) THEN 0
    ELSE IF s[from] = ch THEN from
    ELSE IndexFrom(s, ch, from + 1)

\* 1-based index of the last ch in s, or 0 (lastIndexOf + 1)
RECURSIVE LastIndex(_, _, _)
LastIndex(s, ch, from) ==
    IF from < 1 THEN 0
    ELSE IF s[from] = ch THEN from
    ELSE LastIndex(s, ch, from - 1)

\* length of the longest prefix of s from index i made of word characters
RECURSIVE WordRun(_, _)
WordRun(s, i) ==
    IF i <= Len(s) /\ s[i] \in Letters THEN 1 + WordRun(s, i + 1) ELSE 0

\* rootRegExp: ^\/(\/(.*?\/(.*?\/)?)?)?  |  ^[a-zA-Z]:\/?  |  ^\w+:\/{2}[^/]*\/?
getRootLength(path) ==
    LET n == Len(path) IN
    IF n >= 1 /\ path[1] = "/" THEN
        IF n >= 2 /\ path[2] = "/" THEN
            LET i == IndexFrom(path, "/", 3) IN
            IF i = 0 THEN 2
            ELSE LET j == IndexFrom(path, "/", i + 1) IN
                 IF j = 0 THEN i ELSE j
        ELSE 1
    ELSE IF n >= 2 /\ path[1] \in Letters /\ path[2] = ":" THEN
        IF n >= 3 /\ path[3] = "/" THEN 3 ELSE 2
    ELSE LET w == WordRun(path, 1) IN
         IF w >= 1 /\ n >= w + 3 /\ path[w + 1] = ":" /\ path[w + 2] = "/" /\ path[w + 3] = "/" THEN
             LET k == IndexFrom(path, "/", w + 4) IN
             IF k = 0 THEN n ELSE k
         ELSE 0

isAbsolute(path) == getRootLength(normalizeSlashes(path)) = 0

substr(s, from) == SubSeq(s, from + 1, Len(s))

\* s.split("/")
RECURSIVE Split(_)
Split(s) ==
    LET i == IndexFrom(s, "/", 1) IN
    IF i = 0 THEN <<s>>
    ELSE <<SubSeq(s, 1, i - 1)>> \o Split(SubSeq(s, i + 1, Len(s)))

\* parts.join("/")
RECURSIVE Join(_)
Join(parts) ==
    IF parts = <<>> THEN <<>>
    ELSE IF Len(parts) = 1 THEN parts[1]
    ELSE parts[1] \o <<"/">> \o Join(Tail(parts))

\* a loop that also keeps the empty parts (no "if (part)" before the push)
RECURSIVE NormalizeParts_PushEmpty(_, _)
NormalizeParts_PushEmpty(parts, normalized) ==
    IF parts = <<>> THEN normalized
    ELSE LET part == Head(parts)
             n == Len(normalized) IN
         IF part = <<".">> THEN NormalizeParts_PushEmpty(Tail(parts), normalized)
         ELSE IF part = <<".", ".">> /\ n > 0 /\ normalized[n] # <<".", ".">>
              THEN NormalizeParts_PushEmpty(Tail(parts), SubSeq(normalized, 1, n - 1))
         ELSE NormalizeParts_PushEmpty(Tail(parts), Append(normalized, part))

\* the loop of getNormalizedParts (part_000 60-68)
RECURSIVE NormalizeParts(_, _)
NormalizeParts(parts, normalized) ==
    IF parts = <<>> THEN normalized
    ELSE LET part == Head(parts)
             n == Len(normalized) IN
         IF part = <<".">> THEN NormalizeParts(Tail(parts), normalized)
         ELSE IF part = <<".", ".">> /\ n > 0 /\ normalized[n] # <<".", ".">>
              THEN NormalizeParts(Tail(parts), SubSeq(normalized, 1, n - 1))
         ELSE IF part # <<>> THEN NormalizeParts(Tail(parts), Append(normalized, part))
         ELSE NormalizeParts(Tail(parts), normalized)

getNormalizedParts(normalizedSlashedPath, rootLength) ==
    NormalizeParts(Split(substr(normalizedSlashedPath, rootLength)), <<>>)

normalize(path0) ==
    LET Rooted(path, rootLength) ==
            LET Joined(root, normalized) ==
                    IF Len(normalized) > 0
                    THEN IF path[Len(path)] = "/"
                         THEN root \o Join(normalized) \o <<"/">>
                         ELSE root \o Join(normalized)
                    ELSE root
            IN  Joined(SubSeq(path, 1, rootLength), getNormalizedParts(path, rootLength))
        Slashed(path) == Rooted(path, getRootLength(path))
    IN  Slashed(normalizeSlashes(path0))

combinePaths(path1, path2) ==
    IF Len(path1) = 0 THEN path2
    ELSE IF Len(path2) = 0 THEN path1
    ELSE IF getRootLength(path2) # 0 THEN path2
    ELSE IF path1[Len(path1)] = "/" THEN path1 \o path2
    ELSE path1 \o <<"/">> \o path2

combine(path, name) == combinePaths(normalizeSlashes(path), normalizeSlashes(name))

resolve(path, name) == normalize(combine(path, name))

parse(path0) ==
    LET Rooted(path, rootLength) ==
            <<SubSeq(path, 1, rootLength)>> \o getNormalizedParts(path, rootLength)
        Slashed(path) == Rooted(path, getRootLength(path))
    IN  Slashed(normalizeSlashes(path0))

format(components) ==
    IF Len(components) > 0 THEN components[1] \o Join(Tail(components)) ELSE <<>>

basename(path0) ==
    LET path == normalizeSlashes(path0) IN
    substr(path, Max(getRootLength(path), LastIndex(path, "/", Len(path))))

dirname(path0) ==
    LET path == normalizeSlashes(path0) IN
    SubSeq(path, 1, Max(getRootLength(path), LastIndex(path, "/", Len(path)) - 1))

\* what a call of a vpath function gives: it raised an Error, or its value
Raised == [threw |-> TRUE, value |-> <<>>]
Value(v) == [threw |-> FALSE, value |-> v]

\* the first loop of relative (part_000 101-106): the index where it stops
RECURSIVE CommonStart(_, _, _, _)
CommonStart(fromComponents, toComponents, ignoreCase, start) ==
    IF /\ start < Len(fromComponents) /\ start < Len(toComponents)
       /\ compareStrings(fromComponents[start + 1], toComponents[start + 1], ignoreCase) = 0
    THEN CommonStart(fromComponents, toComponents, ignoreCase, start + 1)
    ELSE start

\* relative after its two checks (part_000 98-113)
relativeComponents(fromComponents, toComponents, ignoreCase) ==
    LET Ups(n) == [k \in 1..n |-> <<".", ".">>]
        From(start) ==
            format(Ups(Len(fromComponents) - start)
                   \o SubSeq(toComponents, start + 1, Len(toComponents)))
    IN  From(CommonStart(fromComponents, toComponents, ignoreCase, 0))

relative(from, to, ignoreCase) ==
    IF ~isAbsolute(from) THEN Raised
    ELSE IF ~isAbsolute(to) THEN Raised
    ELSE Value(relativeComponents(parse(from), parse(to), ignoreCase))

(***************************************************************************)
(* vfs.ts: the heap of entries.                                            *)
(*                                                                         *)
(* kind: "dir" VirtualDirectory, "dlink" VirtualDirectorySymlink,          *)
(*       "file" VirtualFile, "flink" VirtualFileSymlink.                   *)
(* parent = 0 says that the parent is the VirtualFileSystem fs itself.     *)
(* calls counts the invocations of the resolver of the entry (getEntries   *)
(* for a directory, getContent for a file).                                *)
(* A state S is a record [heap, fss]; every operation returns a result     *)
(* [S, ret, ok, threw, div]: the state it leaves, the entry it returns     *)
(* (0 for undefined), its boolean result, whether it raised the frozen     *)
(* error, and whether symlink resolution ran out of steps.                 *)
(***************************************************************************)
NoContent == "<undefined>"

\* a content argument that is a function (file => resolver.getContent(file))
\* and not a string
ContentResolver == "<function>"

NewObj(kind, fs, parent, name) ==
    [kind |-> kind, fs |-> fs, parent |-> parent, name |-> name, ro |-> FALSE,
     mat |-> FALSE, entries |-> <<>>, resolver |-> FALSE, shadow |-> 0,
     content |-> NoContent, target |-> <<>>, calls |-> 0]

Res(S, ret) == [S |-> S, ret |-> ret, ok |-> FALSE, threw |-> FALSE, div |-> FALSE]
Throw(S) == [S |-> S, ret |-> 0, ok |-> FALSE, threw |-> TRUE, div |-> FALSE]
Bool(S, b) == [S |-> S, ret |-> 0, ok |-> b, threw |-> FALSE, div |-> FALSE]

\* instanceof VirtualDirectory / VirtualFile / a symlink class
IsDir(o) == o.kind \in {"dir", "dlink"}
IsFile(o) == o.kind \in {"file", "flink"}
IsLink(o) == o.kind \in {"dlink", "flink"}

\* VirtualFileSystemEntry.path
RECURSIVE path(_, _)
path(S, e) ==
    IF S.heap[e].parent = 0 THEN S.heap[e].name
    ELSE combine(path(S, S.heap[e].parent), S.heap[e].name)

\* FileSystemResolver.getEntries: the listing of the backing store at a path
ResolverEntries(p) ==
    IF p = <<"/">> THEN [files |-> <<>>, directories |-> << <<"r">> >>]
    ELSE IF p = <<"/", "r">> THEN [files |-> << <<"f">> >>, directories |-> <<>>]
    ELSE [files |-> <<>>, directories |-> <<>>]

\* FileSystemResolver.getContent: the content of the backing store at a path
ResolverContent(p) == IF p = <<"/", "r", "f">> THEN "disk" ELSE NoContent

\* VirtualFileSystem.sameName
sameName(S, fs, a, b) == compareStrings(a, b, S.fss[fs].ucs) = 0

\* VirtualFileSystemEntry.writePreamble: does it throw for entry e
writePreamble(S, e) == S.heap[e].ro

\* a makeReadOnly that flips the flag, so that freezing twice thaws
makeReadOnly_Toggle(S, e) == [S EXCEPT !.heap[e].ro = ~@]

\* VirtualFileSystemEntry.makeReadOnly
makeReadOnly(S, e) == [S EXCEPT !.heap[e].ro = TRUE]

\* VirtualFileSystem.makeReadOnly (inherited from VirtualFileSystemEntry)
FsMakeReadOnly(S, fs) == [S EXCEPT !.fss[fs].ro = TRUE]

\* this._entries.push(entry) for a newly constructed entry
Push(S, d, obj) ==
    [S EXCEPT !.heap = Append([@ EXCEPT ![d].entries = Append(@, Len(S.heap) + 1)], obj)]

\* children of a resolver-backed directory that are left mutable
RECURSIVE PushResolved_Mutable(_, _, _, _)
PushResolved_Mutable(S, d, names, kind) ==
    IF names = <<>> THEN S
    ELSE LET obj == [NewObj(kind, S.heap[d].fs, d, Head(names)) EXCEPT !.resolver = TRUE]
         IN  PushResolved_Mutable(Push(S, d, obj), d, Tail(names), kind)

\* the children a resolver-backed directory constructs (vfs.ts 336-345)
RECURSIVE PushResolved(_, _, _, _)
PushResolved(S, d, names, kind) ==
    IF names = <<>> THEN S
    ELSE LET obj == [NewObj(kind, S.heap[d].fs, d, Head(names)) EXCEPT
                        !.resolver = TRUE, !.ro = S.heap[d].ro]
         IN  PushResolved(Push(S, d, obj), d, Tail(names), kind)

\* a clone that takes over the read-only flag of the entry it clones
CloneObj_KeepReadOnly(S, e, fs, parent) ==
    LET o == S.heap[e] IN
    IF o.kind \in {"dir", "file"}
    THEN [NewObj(o.kind, fs, parent, o.name) EXCEPT !.shadow = e, !.ro = o.ro]
    ELSE [NewObj(o.kind, fs, parent, o.name) EXCEPT !.target = o.target, !.ro = o.ro]

\* entry.clone(parent): VirtualDirectory.clone, VirtualDirectorySymlink.clone,
\* VirtualFile.clone, VirtualFileSymlink.clone
CloneObj(S, e, fs, parent) ==
    LET o == S.heap[e] IN
    IF o.kind \in {"dir", "file"}
    THEN [NewObj(o.kind, fs, parent, o.name) EXCEPT !.shadow = e]
    ELSE [NewObj(o.kind, fs, parent, o.name) EXCEPT !.target = o.target]

\* the children a shadowing directory clones (vfs.ts 348-352)
RECURSIVE PushClones(_, _, _)
PushClones(S, d, es) ==
    IF es = <<>> THEN S
    ELSE LET obj == [CloneObj(S, Head(es), S.heap[d].fs, d) EXCEPT !.ro = S.heap[d].ro]
         IN  PushClones(Push(S, d, obj), d, Tail(es))

\* VirtualDirectory.entries (getter): the state after the access; the listing is
\* then heap[d].entries
RECURSIVE entries(_, _)
entries(S, d) ==
    LET o == S.heap[d] IN
    IF o.mat THEN S
    ELSE LET S0 == [S EXCEPT !.heap[d].mat = TRUE, !.heap[d].entries = <<>>,
                             !.heap[d].resolver = FALSE, !.heap[d].shadow = 0]
         IN  IF o.resolver THEN
                 LET listing == ResolverEntries(path(S, d))
                     Called == [S0 EXCEPT !.heap[d].calls = @ + 1]
                 IN  PushResolved(PushResolved(Called, d, listing.directories, "dir"),
                                  d, listing.files, "file")
             ELSE IF o.shadow # 0 THEN
                 LET S1 == entries(S0, o.shadow) IN
                 PushClones(S1, d, S1.heap[o.shadow].entries)
             ELSE S0

\* VirtualFileSystem.root (getter)
root(S, fs) ==
    IF S.fss[fs].root # 0 THEN Res(S, S.fss[fs].root)
    ELSE LET obj == [NewObj("dir", fs, 0, <<>>) EXCEPT !.ro = S.fss[fs].ro]
             id == Len(S.heap) + 1
         IN  Res([S EXCEPT !.heap = Append(@, obj), !.fss[fs].root = id], id)

\* the first entry of es whose name is the same as name, or 0
RECURSIVE FindName(_, _, _, _)
FindName(S, fs, es, name) ==
    IF es = <<>> THEN 0
    ELSE IF sameName(S, fs, S.heap[Head(es)].name, name) THEN Head(es)
    ELSE FindName(S, fs, Tail(es), name)

\* VirtualFileSystemContainer.getFileSystemEntry on a directory
getFileSystemEntry(S, d, name) ==
    LET Listed(S1) == Res(S1, FindName(S1, S1.heap[d].fs, S1.heap[d].entries, name)) IN
    Listed(entries(S, d))

\* a findTarget that never finds a symlink in its set
Visited_Never(set, entry) == FALSE

\* set.has(entry) in findTarget
Visited(set, entry) == entry \in set

RECURSIVE traverseLoop(_, _, _, _, _)
RECURSIVE findTarget(_, _, _, _, _)

\* VirtualFileSystem.getTarget
getTarget(S, fs, entry) ==
    IF IsLink(S.heap[entry]) THEN findTarget(S, fs, S.heap[entry].target, {}, Len(S.heap) + 1)
    ELSE Res(S, entry)

\* the loop of VirtualFileSystem.traversePath (vfs.ts 243-255)
traverseLoop(S, fs, directory, components, follow) ==
    LET Step(r) ==
            IF r.ret # 0 /\ IsDir(r.S.heap[r.ret])
            THEN traverseLoop(r.S, fs, r.ret, Tail(components), follow)
            ELSE IF r.ret # 0 /\ IsFile(r.S.heap[r.ret])
            THEN IF follow THEN getTarget(r.S, fs, r.ret) ELSE r
            ELSE Res(r.S, 0)
    IN  IF components = <<>>
        THEN IF follow THEN getTarget(S, fs, directory) ELSE Res(S, directory)
        ELSE Step(getFileSystemEntry(S, directory, Head(components)))

\* VirtualFileSystem.traversePath
traversePath(S, fs, p, follow) ==
    LET From(rt) == traverseLoop(rt.S, fs, rt.ret, parse(resolve(S.fss[fs].cwd, p)), follow) IN
    From(root(S, fs))

\* a findTarget that returns what the target names, a symlink included
findTarget_OneStep(S, fs, target, set, steps) == traversePath(S, fs, target, FALSE)

\* findTarget(vfs, target, set); steps is the number of further symlinks it may
\* follow before the model gives up and reports div
findTarget(S, fs, target, set, steps) ==
    LET Found(r) ==
            IF r.ret # 0 /\ IsLink(r.S.heap[r.ret])
            THEN IF Visited(set, r.ret) THEN Res(r.S, 0)
                 ELSE IF steps = 0 THEN [Res(r.S, 0) EXCEPT !.div = TRUE]
                 ELSE findTarget(r.S, fs, r.S.heap[r.ret].target, set \cup {r.ret}, steps - 1)
            ELSE r
    IN  Found(traversePath(S, fs, target, FALSE))

\* VirtualDirectorySymlink.targetDirectory
targetDirectory(S, l) ==
    LET Checked(r) == IF r.ret # 0 /\ IsDir(r.S.heap[r.ret]) THEN r ELSE [r EXCEPT !.ret = 0] IN
    Checked(findTarget(S, S.heap[l].fs, S.heap[l].target, {}, Len(S.heap) + 1))

\* VirtualFileSymlink.targetFile
targetFile(S, l) ==
    LET Checked(r) == IF r.ret # 0 /\ IsFile(r.S.heap[r.ret]) THEN r ELSE [r EXCEPT !.ret = 0] IN
    Checked(findTarget(S, S.heap[l].fs, S.heap[l].target, {}, Len(S.heap) + 1))

\* isBroken of either symlink class
isBroken(S, l) ==
    IF S.heap[l].kind = "dlink" THEN targetDirectory(S, l).ret = 0
    ELSE targetFile(S, l).ret = 0

(***************************************************************************)
(* vfs.ts: the mutators of directories, files and symlinks.                *)
(***************************************************************************)
\* VirtualDirectory.addDirectory
VDirAddDirectory(S, d, name, resolver) ==
    LET Existing(r) ==
            IF r.ret = 0
            THEN Res(Push(r.S, d, [NewObj("dir", r.S.heap[d].fs, d, name) EXCEPT
                                      !.resolver = resolver]),
                     Len(r.S.heap) + 1)
            ELSE IF IsDir(r.S.heap[r.ret]) THEN r ELSE Res(r.S, 0)
    IN  IF writePreamble(S, d) THEN Throw(S)
        ELSE Existing(getFileSystemEntry(S, d, name))

\* VirtualDirectory.addFile (content is a string, undefined, or the function
\* ContentResolver)
VDirAddFile(S, d, name, content) ==
    LET Existing(r) ==
            IF r.ret = 0
            THEN Res(Push(r.S, d, [NewObj("file", r.S.heap[d].fs, d, name) EXCEPT
                                      !.content = IF content = ContentResolver
                                                  THEN NoContent ELSE content,
                                      !.resolver = (content = ContentResolver)]),
                     Len(r.S.heap) + 1)
            ELSE IF IsFile(r.S.heap[r.ret]) THEN r ELSE Res(r.S, 0)
    IN  IF writePreamble(S, d) THEN Throw(S)
        ELSE Existing(getFileSystemEntry(S, d, name))

\* VirtualDirectory.addSymlink with a string target (inherited unchanged by
\* VirtualDirectorySymlink)
DirAddSymlink(S, d, name, target) ==
    LET Target(t) ==
            LET Existing(r) ==
                    IF r.ret = 0
                    THEN Res(Push(r.S, d,
                                  [NewObj(IF IsFile(r.S.heap[t.ret]) THEN "flink" ELSE "dlink",
                                          r.S.heap[d].fs, d, name)
                                     EXCEPT !.target = path(r.S, t.ret)]),
                             Len(r.S.heap) + 1)
                    ELSE IF IsLink(r.S.heap[r.ret]) THEN r ELSE Res(r.S, 0)
            IN  IF t.ret = 0 THEN Res(t.S, 0)
                ELSE Existing(getFileSystemEntry(t.S, d, name))
    IN  IF writePreamble(S, d) THEN Throw(S)
        ELSE Target(traversePath(S, S.heap[d].fs, resolve(path(S, d), target), FALSE))

\* the index of the first entry of es from i on with the same name and, as asked,
\* a directory or a file; 0 when there is none (the loops of vfs.ts 419-425, 431-437)
RECURSIVE FindRemovable(_, _, _, _, _, _)
FindRemovable(S, fs, es, name, wantDir, i) ==
    IF i > Len(es) THEN 0
    ELSE IF /\ sameName(S, fs, name, S.heap[es[i]].name)
            /\ (IF wantDir THEN IsDir(S.heap[es[i]]) ELSE IsFile(S.heap[es[i]]))
         THEN i
    ELSE FindRemovable(S, fs, es, name, wantDir, i + 1)

\* es.splice(i, 1)
Splice(es, i) == SubSeq(es, 1, i - 1) \o SubSeq(es, i + 1, Len(es))

\* VirtualDirectory.removeDirectory (wantDir) and VirtualDirectory.removeFile
VDirRemove(S, d, name, wantDir) ==
    LET Listed(S1) ==
            LET At(i) ==
                    IF i = 0 THEN Bool(S1, FALSE)
                    ELSE Bool([S1 EXCEPT !.heap[d].entries = Splice(@, i)], TRUE)
            IN  At(FindRemovable(S1, S1.heap[d].fs, S1.heap[d].entries, name, wantDir, 1))
    IN  IF writePreamble(S, d) THEN Throw(S)
        ELSE Listed(entries(S, d))

\* addDirectory of VirtualDirectory and of VirtualDirectorySymlink
DirAddDirectory(S, d, name, resolver) ==
    LET Via(t) == IF t.ret = 0 THEN t ELSE VDirAddDirectory(t.S, t.ret, name, resolver) IN
    IF S.heap[d].kind = "dlink" THEN Via(targetDirectory(S, d))
    ELSE VDirAddDirectory(S, d, name, resolver)

\* addFile of VirtualDirectory and of VirtualDirectorySymlink
DirAddFile(S, d, name, content) ==
    LET Via(t) == IF t.ret = 0 THEN t ELSE VDirAddFile(t.S, t.ret, name, content) IN
    IF S.heap[d].kind = "dlink" THEN Via(targetDirectory(S, d))
    ELSE VDirAddFile(S, d, name, content)

\* removeDirectory / removeFile of VirtualDirectory and of VirtualDirectorySymlink
DirRemove(S, d, name, wantDir) ==
    LET Via(t) ==
            IF t.ret = 0 THEN Bool(t.S, FALSE) ELSE VDirRemove(t.S, t.ret, name, wantDir)
    IN  IF S.heap[d].kind = "dlink" THEN Via(targetDirectory(S, d))
        ELSE VDirRemove(S, d, name, wantDir)

\* VirtualFile.content (getter)
RECURSIVE VFileGetContent(_, _)

\* a content getter that keeps the resolver of the file after it called it
VFileGetContent_KeepResolver(S, f) ==
    LET o == S.heap[f] IN
    IF o.content # NoContent THEN S
    ELSE LET S0 == [S EXCEPT !.heap[f].shadow = 0]
             Shadowed(S1) == [S1 EXCEPT !.heap[f].content = S1.heap[o.shadow].content]
         IN  IF o.resolver
             THEN [S0 EXCEPT !.heap[f].content = ResolverContent(path(S, f)),
                             !.heap[f].calls = @ + 1]
             ELSE IF o.shadow # 0 THEN Shadowed(VFileGetContent(S0, o.shadow))
             ELSE S0

VFileGetContent(S, f) ==
    LET o == S.heap[f] IN
    IF o.content # NoContent THEN S
    ELSE LET S0 == [S EXCEPT !.heap[f].resolver = FALSE, !.heap[f].shadow = 0]
             Shadowed(S1) == [S1 EXCEPT !.heap[f].content = S1.heap[o.shadow].content]
         IN  IF o.resolver
             THEN [S0 EXCEPT !.heap[f].content = ResolverContent(path(S, f)),
                             !.heap[f].calls = @ + 1]
             ELSE IF o.shadow # 0 THEN Shadowed(VFileGetContent(S0, o.shadow))
             ELSE S0

\* content (getter) of VirtualFile and of VirtualFileSymlink: the state after the
\* read and the value read
FileGetContent(S, f) ==
    LET Read(S1, g) == [S |-> S1, value |-> S1.heap[g].content]
        Via(t) ==
            IF t.ret = 0 THEN [S |-> t.S, value |-> NoContent]
            ELSE Read(VFileGetContent(t.S, t.ret), t.ret)
    IN  IF S.heap[f].kind = "flink" THEN Via(targetFile(S, f))
        ELSE Read(VFileGetContent(S, f), f)

\* a content setter that also writes the file this one shadows
VFileSetContent_WriteThrough(S, f, value) ==
    IF writePreamble(S, f) THEN Throw(S)
    ELSE LET g == S.heap[f].shadow
             S1 == [S EXCEPT !.heap[f].resolver = FALSE, !.heap[f].content = value]
         IN  Res(IF g = 0 THEN S1 ELSE [S1 EXCEPT !.heap[g].content = value], f)

\* VirtualFile.content (setter)
VFileSetContent(S, f, value) ==
    IF writePreamble(S, f) THEN Throw(S)
    ELSE Res([S EXCEPT !.heap[f].resolver = FALSE, !.heap[f].content = value], f)

\* a content setter that a file symlink does not redirect to its target
FileSetContent_Own(S, f, value) == VFileSetContent(S, f, value)

\* content (setter) of VirtualFile and of VirtualFileSymlink
FileSetContent(S, f, value) ==
    LET Via(t) == IF t.ret = 0 THEN t ELSE VFileSetContent(t.S, t.ret, value) IN
    IF S.heap[f].kind = "flink" THEN Via(targetFile(S, f))
    ELSE VFileSetContent(S, f, value)

\* target (setter) of VirtualDirectorySymlink and of VirtualFileSymlink
SetTarget(S, l, value) ==
    IF writePreamble(S, l) THEN Throw(S)
    ELSE Res([S EXCEPT !.heap[l].target = value], l)

(***************************************************************************)
(* vfs.ts: the operations of VirtualFileSystem.                            *)
(***************************************************************************)
\* the loop of VirtualFileSystem.addDirectory (vfs.ts 175-180)
RECURSIVE addDirectoryLoop(_, _, _, _)
addDirectoryLoop(S, directory, components, resolver) ==
    LET Step(r) ==
            IF r.threw \/ r.ret = 0 THEN r
            ELSE addDirectoryLoop(r.S, r.ret, Tail(components), resolver)
    IN  IF components = <<>> THEN Res(S, directory)
        ELSE Step(DirAddDirectory(S, directory, Head(components), resolver))

\* VirtualFileSystem.addDirectory
FsAddDirectory(S, fs, p, resolver) ==
    LET From(rt) ==
            addDirectoryLoop(rt.S, rt.ret, parse(resolve(S.fss[fs].cwd, p)), resolver)
    IN  IF S.fss[fs].ro THEN Throw(S)
        ELSE From(root(S, fs))

\* VirtualFileSystem.addFile
FsAddFile(S, fs, p, content) ==
    LET absolutePath == resolve(S.fss[fs].cwd, p)
        fileName == basename(p)
        directoryPath == dirname(absolutePath)
        In(d) == IF d.threw \/ d.ret = 0 THEN d
                 ELSE DirAddFile(d.S, d.ret, fileName, content)
    IN  IF S.fss[fs].ro THEN Throw(S)
        ELSE In(FsAddDirectory(S, fs, directoryPath, FALSE))

\* VirtualFileSystem.addSymlink
FsAddSymlink(S, fs, p, target) ==
    LET In(d) == IF d.threw \/ d.ret = 0 THEN d
                 ELSE DirAddSymlink(d.S, d.ret, basename(p), target)
    IN  IF S.fss[fs].ro THEN Throw(S)
        ELSE In(FsAddDirectory(S, fs, dirname(resolve(S.fss[fs].cwd, p)), FALSE))

\* VirtualFileSystem.removeDirectory (wantDir) and VirtualFileSystem.removeFile
FsRemove(S, fs, p, wantDir) ==
    LET In(c) ==
            IF c.ret # 0 /\ IsDir(c.S.heap[c.ret])
            THEN DirRemove(c.S, c.ret, basename(p), wantDir)
            ELSE Bool(c.S, FALSE)
    IN  IF S.fss[fs].ro THEN Throw(S)
        ELSE IF dirname(p) = <<>> THEN In(root(S, fs))
        ELSE In(traversePath(S, fs, dirname(p), FALSE))

\* new VirtualFileSystem(currentDirectory, useCaseSensitiveFileNames); of is
\* bookkeeping of the model: the file system this one was cloned from, or 0
NewFs(currentDirectory, useCaseSensitiveFileNames, of) ==
    [ro |-> FALSE, root |-> 0, cwd |-> normalizeSlashes(currentDirectory),
     ucs |-> useCaseSensitiveFileNames, of |-> of]

\* a clone that copies the children of the root when it is made
FsClone_Eager(S, fs) ==
    LET Shadowing(S1, shadowRoot, new) ==
            Res(entries([S1 EXCEPT !.heap = Append(@, CloneObj(S1, shadowRoot, new, 0)),
                                   !.fss[new].root = Len(S1.heap) + 1],
                        Len(S1.heap) + 1),
                new)
        From(rt) ==
            Shadowing([rt.S EXCEPT !.fss = Append(@, NewFs(S.fss[fs].cwd, S.fss[fs].ucs, fs))],
                      rt.ret, Len(S.fss) + 1)
    IN  From(root(S, fs))

\* VirtualFileSystem.clone: ret is the index of the new file system
FsClone(S, fs) ==
    LET Shadowing(S1, shadowRoot, new) ==
            Res([S1 EXCEPT !.heap = Append(@, CloneObj(S1, shadowRoot, new, 0)),
                           !.fss[new].root = Len(S1.heap) + 1],
                new)
        From(rt) ==
            Shadowing([rt.S EXCEPT !.fss = Append(@, NewFs(S.fss[fs].cwd, S.fss[fs].ucs, fs))],
                      rt.ret, Len(S.fss) + 1)
    IN  From(root(S, fs))

(***************************************************************************)
(* The state machine: one action per operation a caller can invoke on a    *)
(* file system or on an entry it reaches.                                   *)
(***************************************************************************)
\* VirtualFileSystemEntry.exists (getter). The parent of a root directory is
\* its file system, whose exists is true and whose getFileSystemEntry lists
\* the entries of the root (getOwnFileSystemEntries, vfs.ts 310-312)
RECURSIVE exists(_, _)
exists(S, e) ==
    LET o == S.heap[e]
        Same(r) == Bool(r.S, r.ret = e)
        InRoot(rt) == Same(getFileSystemEntry(rt.S, rt.ret, o.name))
        InParent(above) ==
            IF above.ok THEN Same(getFileSystemEntry(above.S, o.parent, o.name))
            ELSE Bool(above.S, FALSE)
    IN  IF o.parent = 0 THEN InRoot(root(S, o.fs))
        ELSE InParent(exists(S, o.parent))

St == [heap |-> heap, fss |-> fss]

FsIds == 1..Len(fss)
Objs == 1..Len(heap)
DirObjs == {e \in Objs : IsDir(heap[e])}
FileObjs == {e \in Objs : IsFile(heap[e])}
LinkObjs == {e \in Objs : IsLink(heap[e])}

(***************************************************************************)
(* Entries no file system reaches any more are garbage, and a reference is *)
(* opaque: after every operation the heap keeps the entries reachable from *)
(* the file systems' roots (through children, shadows and parents) and     *)
(* numbers them in the order a depth-first walk meets them.                *)
(***************************************************************************)
InSeq(x, seq) == \E k \in 1..Len(seq) : seq[k] = x

RECURSIVE Visit(_, _, _)
Visit(h, order, es) ==
    IF es = <<>> THEN order
    ELSE LET e == Head(es) IN
         IF e = 0 \/ InSeq(e, order) THEN Visit(h, order, Tail(es))
         ELSE Visit(h, Visit(h, Append(order, e),
                             <<h[e].parent>> \o h[e].entries \o <<h[e].shadow>>),
                    Tail(es))

Collect(S) ==
    LET Renumbered(order) ==
            LET new(e) == IF e = 0 THEN 0 ELSE CHOOSE k \in 1..Len(order) : order[k] = e
                Moved(o) ==
                    [o EXCEPT !.parent = new(o.parent), !.shadow = new(o.shadow),
                              !.entries = [j \in 1..Len(o.entries) |-> new(o.entries[j])]]
            IN  [heap |-> [k \in 1..Len(order) |-> Moved(S.heap[order[k]])],
                 fss |-> [i \in 1..Len(S.fss) |-> [S.fss[i] EXCEPT !.root = new(@)]]]
    IN  Renumbered(Visit(S.heap, <<>>, [i \in 1..Len(S.fss) |-> S.fss[i].root]))

Fits(S) == Len(S.heap) <= MaxObjs /\ Len(S.fss) <= MaxFs

Apply(r) ==
    LET Commit(S) ==
            /\ Fits(S)
            /\ heap' = S.heap
            /\ fss' = S.fss
            /\ UNCHANGED <<call, builtLocal>>
    IN  Commit(Collect(r.S))

\* paths, names and contents the actions draw their inputs from
PRoot == <<"/">>
PA == <<"/", "a">>
PAup == <<"/", "A">>
PAB == <<"/", "a", "/", "b">>
PS == <<"/", "s">>
PSB == <<"/", "s", "/", "b">>
PT == <<"/", "t">>
PR == <<"/", "r">>
PASlash == <<"/", "a", "/">>
NA == <<"a">>
NB == <<"b">>

\* no call of a vpath function is under way
NoCall == [from |-> <<>>, to |-> <<>>, ignoreCase |-> FALSE, returned |-> FALSE, result |-> Raised]

Init ==
    /\ heap = <<>>
    /\ fss \in {<< NewFs(<<>>, u, 0) >> : u \in BOOLEAN}
    /\ call = NoCall
    /\ builtLocal = 0

AddDirectory(fs, p) == Apply(FsAddDirectory(St, fs, p, FALSE))

AddResolverDirectory(fs) == Apply(FsAddDirectory(St, fs, PR, TRUE))

AddFile(fs, p, c) == Apply(FsAddFile(St, fs, p, c))

AddSymlink(fs, p, t) == Apply(FsAddSymlink(St, fs, p, t))

RemoveDirectory(fs, p) == Apply(FsRemove(St, fs, p, TRUE))

RemoveFile(fs, p) == Apply(FsRemove(St, fs, p, FALSE))

TraversePath(fs, p, follow) == Apply(traversePath(St, fs, p, follow))

Clone(fs) == Apply(FsClone(St, fs))

FreezeFs(fs) == Apply(Res(FsMakeReadOnly(St, fs), 0))

Freeze(e) == Apply(Res(makeReadOnly(St, e), 0))

EntryAddDirectory(d, n) ==
    Apply(DirAddDirectory(St, d, n, FALSE))

EntryAddFile(d, n, c) == Apply(DirAddFile(St, d, n, c))

EntryAddSymlink(d, n, t) == Apply(DirAddSymlink(St, d, n, t))

EntryRemoveDirectory(d, n) ==
    Apply(DirRemove(St, d, n, TRUE))

EntryRemoveFile(d, n) == Apply(DirRemove(St, d, n, FALSE))

\* getFileSystemEntries() of a directory
ListEntries(d) == Apply(Res(entries(St, d), 0))

ReadContent(f) == Apply(Res(FileGetContent(St, f).S, 0))

WriteContent(f, c) == Apply(FileSetContent(St, f, c))

WriteTarget(l, t) == Apply(SetTarget(St, l, t))

\* a file system of either case-sensitivity policy: directories and files whose
\* names differ in case
Next ==
    \/ \E fs \in FsIds, p \in {PA, PAB} : AddDirectory(fs, p)
    \/ \E fs \in FsIds, p \in {PA, PAup, PAB} : AddFile(fs, p, "x")
    \/ \E fs \in FsIds : RemoveDirectory(fs, PA)
    \/ \E fs \in FsIds, p \in {PA, PAB} : RemoveFile(fs, p)
    \/ \E fs \in FsIds, p \in {PAup, PAB} : TraversePath(fs, p, FALSE)
    \/ \E d \in DirObjs : EntryAddFile(d, NB, "x")
    \/ \E d \in DirObjs : EntryRemoveFile(d, NB)
    \/ \E f \in FileObjs : ReadContent(f)
    \/ \E f \in FileObjs : WriteContent(f, "y")

Spec == Init /\ [][Next]_vars

\* new VirtualFileSystem("", false)
InitOne ==
    /\ heap = <<>>
    /\ fss = << NewFs(<<>>, FALSE, 0) >>
    /\ call = NoCall
    /\ builtLocal = 0

\* one file system whose directories and which itself can be frozen
NextFreeze ==
    \/ \E fs \in FsIds : AddDirectory(fs, PA)
    \/ \E fs \in FsIds : AddFile(fs, PAB, "x")
    \/ \E fs \in FsIds : RemoveDirectory(fs, PA)
    \/ \E fs \in FsIds : RemoveFile(fs, PAB)
    \/ \E fs \in FsIds : TraversePath(fs, PAB, FALSE)
    \/ \E fs \in FsIds : FreezeFs(fs)
    \/ \E d \in DirObjs : Freeze(d)
    \/ \E d \in DirObjs : EntryAddFile(d, NB, "x")
    \/ \E d \in DirObjs : EntryRemoveFile(d, NB)
    \/ \E f \in FileObjs : WriteContent(f, "y")

SpecFreeze == InitOne /\ [][NextFreeze]_vars

\* one file system with symbolic links to files and to directories
NextLink ==
    \/ \E fs \in FsIds : AddDirectory(fs, PA)
    \/ \E fs \in FsIds, p \in {PA, PSB} : AddFile(fs, p, "x")
    \/ \E fs \in FsIds, p \in {PS, PT}, t \in {PA, PS} : AddSymlink(fs, p, t)
    \/ \E fs \in FsIds : RemoveDirectory(fs, PA)
    \/ \E fs \in FsIds : RemoveFile(fs, PA)
    \/ \E fs \in FsIds, follow \in BOOLEAN : TraversePath(fs, PSB, follow)
    \/ \E l \in LinkObjs : Freeze(l)
    \/ \E l \in LinkObjs \cap DirObjs : EntryAddFile(l, NB, "x")
    \/ \E f \in FileObjs : WriteContent(f, "y")
    \/ \E l \in LinkObjs, t \in {PS, PT} : WriteTarget(l, t)

SpecLink == InitOne /\ [][NextLink]_vars

\* one file system where entries are added below a symbolic link to a directory
NextNested ==
    \/ \E fs \in FsIds : AddDirectory(fs, PA)
    \/ \E fs \in FsIds, p \in {PAB, PSB} : AddFile(fs, p, "x")
    \/ \E fs \in FsIds, p \in {PS, PSB}, t \in {PA, PAB} : AddSymlink(fs, p, t)
    \/ \E fs \in FsIds : RemoveDirectory(fs, PA)
    \/ \E fs \in FsIds, p \in {PAB, PSB} : RemoveFile(fs, p)
    \/ \E fs \in FsIds, follow \in BOOLEAN : TraversePath(fs, PSB, follow)
    \/ \E l \in LinkObjs \cap DirObjs : EntryAddSymlink(l, NA, PA)
    \/ \E f \in FileObjs : WriteContent(f, "y")

SpecNested == InitOne /\ [][NextNested]_vars

\* a file system and its clones
NextClone ==
    \/ \E fs \in FsIds : AddDirectory(fs, PA)
    \/ \E fs \in FsIds : AddFile(fs, PA, "x")
    \/ \E fs \in FsIds : AddSymlink(fs, PS, PA)
    \/ \E fs \in FsIds : RemoveDirectory(fs, PA)
    \/ \E fs \in FsIds, p \in {PA, PS} : RemoveFile(fs, p)
    \/ \E fs \in FsIds : TraversePath(fs, PA, FALSE)
    \/ \E fs \in FsIds : Clone(fs)
    \/ \E f \in FileObjs : ReadContent(f)
    \/ \E f \in FileObjs : WriteContent(f, "y")
    \/ \E l \in LinkObjs : WriteTarget(l, PRoot)

SpecClone == InitOne /\ [][NextClone]_vars

\* the baseline: a resolver-backed file system that is frozen and cloned
NextBaseline ==
    \/ \E fs \in FsIds : AddResolverDirectory(fs)
    \/ \E fs \in FsIds : AddFile(fs, PA, "x")
    \/ \E fs \in FsIds : FreezeFs(fs)
    \/ \E f \in FileObjs : Freeze(f)
    \/ Clone(1)
    \/ \E d \in DirObjs : ListEntries(d)
    \/ \E f \in FileObjs : WriteContent(f, "y")

SpecBaseline == InitOne /\ [][NextBaseline]_vars

\* a file system whose directories and files are read from resolvers on demand
NextLazy ==
    \/ \E fs \in FsIds : AddResolverDirectory(fs)
    \/ \E fs \in FsIds : AddFile(fs, PA, ContentResolver)
    \/ \E fs \in FsIds : RemoveFile(fs, PA)
    \/ Clone(1)
    \/ \E d \in DirObjs : ListEntries(d)
    \/ \E f \in FileObjs : ReadContent(f)
    \/ \E f \in FileObjs : WriteContent(f, NoContent)

SpecLazy == InitOne /\ [][NextLazy]_vars

\* file systems whose directories are frozen before their children are read:
\* a resolver-backed directory, a clone, and a file system frozen before its
\* root is created
NextInherit ==
    \/ \E fs \in FsIds : AddResolverDirectory(fs)
    \/ \E fs \in FsIds : AddFile(fs, PA, "x")
    \/ Clone(1)
    \/ \E fs \in FsIds : FreezeFs(fs)
    \/ \E d \in {x \in DirObjs : ~heap[x].mat} : Freeze(d)
    \/ \E d \in DirObjs : ListEntries(d)
    \/ \E fs \in FsIds : TraversePath(fs, PA, FALSE)

SpecInherit == InitOne /\ [][NextInherit]_vars

\* VirtualFileSystem.directoryExists
directoryExists(S, fs, p) ==
    LET Is(r) == r.ret # 0 /\ IsDir(r.S.heap[r.ret]) IN
    Is(traversePath(S, fs, p, FALSE))

\* VirtualFileSystem.fileExists
fileExists(S, fs, p) ==
    LET Is(r) == r.ret # 0 /\ IsFile(r.S.heap[r.ret]) IN
    Is(traversePath(S, fs, p, FALSE))

\* a getBuiltLocal that builds the baseline anew at every call
getBuiltLocal_Rebuild(S, built, useCaseSensitiveFileNames) ==
    LET new == Len(S.fss) + 1
        Frozen(r) == Res(FsMakeReadOnly(r.S, new), new)
    IN  Frozen(FsAddDirectory([S EXCEPT !.fss = Append(@, NewFs(<<>>, useCaseSensitiveFileNames, 0))],
                              new, PR, TRUE))

\* VirtualFileSystem.getBuiltLocal: built is the static builtLocal, ret the
\* file system returned (and stored in builtLocal); useCaseSensitiveFileNames
\* is what io.useCaseSensitiveFileNames() answers
getBuiltLocal(S, built, useCaseSensitiveFileNames) ==
    LET new == Len(S.fss) + 1
        Frozen(r) == Res(FsMakeReadOnly(r.S, new), new)
    IN  IF built # 0 THEN Res(S, built)
        ELSE Frozen(FsAddDirectory([S EXCEPT !.fss = Append(@, NewFs(<<>>, useCaseSensitiveFileNames, 0))],
                                   new, PR, TRUE))

\* the process starts: no file system was constructed, builtLocal is undefined
InitBuilt ==
    /\ heap = <<>>
    /\ fss = <<>>
    /\ call = NoCall
    /\ builtLocal = 0

GetBuiltLocal(useCaseSensitiveFileNames) ==
    LET Commit(S, built) ==
            /\ Fits(S)
            /\ heap' = S.heap
            /\ fss' = S.fss
            /\ builtLocal' = built
            /\ UNCHANGED call
        Returned(r) == Commit(Collect(r.S), r.ret)
    IN  Returned(getBuiltLocal(St, builtLocal, useCaseSensitiveFileNames))

\* tests that take the baseline, clone it and work on the clone
NextBuilt ==
    \/ \E u \in BOOLEAN : GetBuiltLocal(u)
    \/ \E fs \in FsIds : Clone(fs)
    \/ \E fs \in FsIds, p \in {PA, PAB, PS} : AddFile(fs, p, "x")
    \/ \E fs \in FsIds, p \in {PA, PS} : RemoveFile(fs, p)
    \/ \E fs \in FsIds : TraversePath(fs, PR, FALSE)
    \/ \E d \in DirObjs : ListEntries(d)
    \/ \E f \in FileObjs : ReadContent(f)
    \/ \E f \in FileObjs : WriteContent(f, "y")

SpecBuilt == InitBuilt /\ [][NextBuilt]_vars

\* the paths vpath.relative is called with: rooted and unrooted, with common
\* prefixes of every length and names that differ in letter case only
PathInputs ==
    { <<"/">>, PA, PAup, PAB, <<"/", "a", "/", "c", "/", "d">>,
      <<"a">>, <<"a", "/", "b">>, <<"a", "/", "c", "/", "d">> }

\* a caller is about to call relative(from, to, ignoreCase)
InitPath ==
    /\ heap = <<>>
    /\ fss = <<>>
    /\ call \in {[NoCall EXCEPT !.from = f, !.to = t, !.ignoreCase = i] :
                    f \in PathInputs, t \in PathInputs, i \in BOOLEAN}
    /\ builtLocal = 0

\* vpath.relative runs to its end
Relative ==
    /\ ~call.returned
    /\ call' = [call EXCEPT !.returned = TRUE,
                            !.result = relative(call.from, call.to, call.ignoreCase)]
    /\ UNCHANGED <<heap, fss, builtLocal>>

NextPath == Relative

SpecPath == InitPath /\ [][NextPath]_vars

\* the characters of the paths normalize is called with: both separators, the
\* dot and a name character
PathChars == {"/", "\\", ".", "a"}

\* the paths of at most MaxLen characters, rooted ("/a", "\\a", "//a/b/") or not
Paths == UNION {[1..n -> PathChars] : n \in 1..MaxLen}

\* a caller is about to call normalize(from)
InitNormalize ==
    /\ heap = <<>>
    /\ fss = <<>>
    /\ call \in {[NoCall EXCEPT !.from = p] : p \in Paths}
    /\ builtLocal = 0

\* vpath.normalize runs to its end
Normalize ==
    /\ ~call.returned
    /\ call' = [call EXCEPT !.returned = TRUE, !.result = Value(normalize(call.from))]
    /\ UNCHANGED <<heap, fss, builtLocal>>

NextNormalize == Normalize

SpecNormalize == InitNormalize /\ [][NextNormalize]_vars

(***************************************************************************)
(* What a caller can observe and do in a state.                            *)
(***************************************************************************)
\* what reading entry e and everything below it returns: kinds, names, targets,
\* contents and the listings in their order
RECURSIVE ViewOf(_, _)
ViewOf(S, e) ==
    LET o == S.heap[e] IN
    IF IsDir(o)
    THEN LET S1 == entries(S, e)
             es == S1.heap[e].entries
         IN  [kind |-> o.kind, name |-> o.name, target |-> o.target, content |-> NoContent,
              children |-> [k \in 1..Len(es) |-> ViewOf(S1, es[k])]]
    ELSE [kind |-> o.kind, name |-> o.name, target |-> o.target,
          content |-> FileGetContent(S, e).value, children |-> <<>>]

\* what file system fs returns for every path
FsView(S, fs) == LET rt == root(S, fs) IN ViewOf(rt.S, rt.ret)

\* what traversePath(p) returns in fs: nothing, or the view of the entry
Probe(S, fs, p) ==
    LET r == traversePath(S, fs, p, FALSE) IN
    IF r.ret = 0 THEN <<>> ELSE <<ViewOf(r.S, r.ret)>>

\* the entries listed below entry e
RECURSIVE Below(_, _)
Below(S, e) ==
    LET es == S.heap[e].entries IN
    {es[k] : k \in 1..Len(es)} \cup UNION {Below(S, es[k]) : k \in 1..Len(es)}

\* the entries file system fs reaches
Reached(S, fs) ==
    IF S.fss[fs].root = 0 THEN {} ELSE {S.fss[fs].root} \cup Below(S, S.fss[fs].root)

ProbePaths == {PA, PS, PSB}
ProbeNames == {NA, NB}
ProbeContents == {"x", "y"}

\* the results of every mutator invoked directly on entry e
EntryMutations(S, e) ==
    IF IsDir(S.heap[e])
    THEN {DirAddDirectory(S, e, n, FALSE) : n \in ProbeNames}
         \cup {DirAddFile(S, e, n, "y") : n \in ProbeNames}
         \cup {DirAddSymlink(S, e, n, t) : n \in ProbeNames, t \in {PA, PS}}
         \cup {DirRemove(S, e, n, wantDir) : n \in ProbeNames, wantDir \in BOOLEAN}
         \cup (IF IsLink(S.heap[e]) THEN {SetTarget(S, e, PT)} ELSE {})
    ELSE {FileSetContent(S, e, c) : c \in ProbeContents}
         \cup (IF IsLink(S.heap[e]) THEN {SetTarget(S, e, PT)} ELSE {})

\* the results of every mutator of VirtualFileSystem invoked on fs
FsMutations(S, fs) ==
    {FsAddDirectory(S, fs, p, FALSE) : p \in ProbePaths}
    \cup {FsAddFile(S, fs, p, "y") : p \in ProbePaths}
    \cup {FsAddSymlink(S, fs, p, t) : p \in ProbePaths, t \in {PA, PS}}
    \cup {FsRemove(S, fs, p, wantDir) : p \in ProbePaths, wantDir \in BOOLEAN}

\* the results of every mutation of fs: through fs itself or an entry it reaches
Mutations(S, fs) ==
    FsMutations(S, fs) \cup UNION {EntryMutations(S, e) : e \in Reached(S, fs)}

\* the entries of fs materialized everywhere: the state after listing every
\* directory below entry e
RECURSIVE ListAll(_, _)
RECURSIVE ListEach(_, _)
ListAll(S, e) ==
    IF IsDir(S.heap[e])
    THEN LET S1 == entries(S, e) IN ListEach(S1, S1.heap[e].entries)
    ELSE S
ListEach(S, es) == IF es = <<>> THEN S ELSE ListEach(ListAll(S, Head(es)), Tail(es))

(***************************************************************************)
(* The claims.                                                             *)
(***************************************************************************)
\* C1: once makeReadOnly() was called on a file system or a directory whose
\* children are materialized, every mutator raises the frozen error on it and
\* on every entry below it.
C1_FrozenContainerFreezesDescendants ==
    /\ \A fs \in FsIds :
          (fss[fs].ro /\ fss[fs].root # 0 /\ heap[fss[fs].root].mat)
          => /\ \A r \in FsMutations(St, fs) : r.threw
             /\ \A e \in Reached(St, fs) : \A r \in EntryMutations(St, e) : r.threw
    /\ \A d \in DirObjs :
          (heap[d].kind = "dir" /\ heap[d].ro /\ heap[d].mat)
          => \A e \in {d} \cup Below(St, d) : \A r \in EntryMutations(St, e) : r.threw

\* the file systems fs was cloned from, directly or through other clones
RECURSIVE Ancestors(_, _)
Ancestors(S, fs) ==
    IF S.fss[fs].of = 0 THEN {} ELSE {S.fss[fs].of} \cup Ancestors(S, S.fss[fs].of)

\* C2: after c = fs.clone(), no mutation of the original fs changes what the
\* clone c returns, whether or not the clone was read before.
C2_OriginalMutationsKeepClone ==
    \A c \in FsIds : \A o \in Ancestors(St, c) :
        \A r \in Mutations(St, o) : FsView(r.S, c) = FsView(St, c)

\* C3: after c = fs.clone(), no mutation of the clone c, through c or through an
\* entry reached from c, changes what the original fs returns.
C3_CloneMutationsKeepOriginal ==
    \A c \in FsIds : \A o \in Ancestors(St, c) :
        \A r \in Mutations(St, c) :
            FsView(r.S, o) = FsView(St, o)

\* a clone whose file was written while the file of the same name in the
\* original keeps its own content
C3_Witness ==
    \E c \in FsIds : \E o \in Ancestors(St, c) :
        \E f \in Reached(St, c), g \in Reached(St, o) :
            /\ heap[f].kind = "file" /\ heap[g].kind = "file"
            /\ heap[f].name = heap[g].name
            /\ heap[f].content = "y"
            /\ heap[g].content = "x"

\* C4: right after c = fs.clone() the clone and the original agree on every
\* path: same kinds and names, same listings in the same order, same contents
\* and same symlink targets.
C4_CloneAgreesWithOriginal ==
    \A fs \in FsIds :
        LET r == FsClone(St, fs) IN
        /\ FsView(r.S, r.ret) = FsView(r.S, fs)
        /\ \A p \in ProbePaths : Probe(r.S, r.ret, p) = Probe(r.S, fs, p)

\* C5: every mutator invoked directly on an entry whose isReadOnly is true
\* raises the frozen error and leaves the tree unchanged, symlinks included.
C5_FrozenEntryRejectsMutators ==
    \A e \in Objs :
        heap[e].ro =>
            \A r \in EntryMutations(St, e) :
                r.threw /\ FsView(r.S, heap[e].fs) = FsView(St, heap[e].fs)

\* the entry traversePath(target of l) returns when it is a symlink, else 0
NextLinkOf(S, l) ==
    LET r == traversePath(S, S.heap[l].fs, S.heap[l].target, FALSE) IN
    IF r.ret # 0 /\ IsLink(r.S.heap[r.ret]) THEN r.ret ELSE 0

\* the chain of targets starting at symlink l runs into a symlink it passed
RECURSIVE ChainCyclic(_, _, _)
ChainCyclic(S, l, seen) ==
    LET n == NextLinkOf(S, l) IN
    IF n = 0 THEN FALSE
    ELSE IF n \in seen THEN TRUE
    ELSE ChainCyclic(S, n, seen \cup {n})

\* C7: symlink resolution terminates for every tree, and for a chain of targets
\* that is cyclic or self-referential it yields undefined (isBroken) without
\* raising an error.
C7_ResolutionTerminates ==
    \A l \in LinkObjs :
        LET r == findTarget(St, heap[l].fs, heap[l].target, {}, Len(heap) + 1)
            t == traversePath(St, heap[l].fs, path(St, l), TRUE)
        IN  /\ ~r.div /\ ~r.threw
            /\ ~t.div /\ ~t.threw
            /\ ChainCyclic(St, l, {}) => (r.ret = 0 /\ isBroken(St, l))

\* two symlinks whose targets name each other
C7_Witness ==
    \E l, m \in LinkObjs :
        /\ l # m
        /\ NextLinkOf(St, l) = m /\ NextLinkOf(St, m) = l
        /\ isBroken(St, l)

\* C8: in a file system that is not frozen, when no entry is at path p and
\* addFile(p, X) returns a File, traversePath(p) returns that File and its
\* content is X.
C8_AddFileThenTraverse ==
    \A fs \in FsIds : \A p \in ProbePaths : \A X \in ProbeContents :
        LET pre == traversePath(St, fs, p, FALSE)
            r == FsAddFile(St, fs, p, X)
            t == traversePath(r.S, fs, p, FALSE)
        IN  (~fss[fs].ro /\ pre.ret = 0 /\ ~r.threw /\ r.ret # 0)
            => (t.ret = r.ret /\ FileGetContent(t.S, t.ret).value = X)

\* C6: a clone of a frozen file system is mutable: it is not read-only, no
\* entry materialized in it is read-only, and addFile, addDirectory and content
\* writes on it do not raise the frozen error.
C6_CloneOfFrozenIsMutable ==
    \A b \in FsIds :
        fss[b].ro =>
            LET r == FsClone(St, b)
                c == r.ret
                rt == root(r.S, c)
                m == ListAll(rt.S, rt.ret)
            IN  /\ ~r.threw
                /\ ~r.S.fss[c].ro
                /\ \A e \in Reached(m, c) : ~m.heap[e].ro
                /\ \A p \in ProbePaths :
                      /\ ~FsAddFile(r.S, c, p, "y").threw
                      /\ ~FsAddDirectory(r.S, c, p, FALSE).threw
                /\ \A f \in Reached(m, c) :
                      IsFile(m.heap[f]) => ~FileSetContent(m, f, "y").threw

\* a frozen file system with a frozen file, and a clone of it whose copy of the
\* file is materialized, not read-only and written
C6_Witness ==
    \E c \in FsIds :
        /\ fss[c].of # 0 /\ fss[fss[c].of].ro /\ ~fss[c].ro
        /\ \E f \in Reached(St, c), g \in Reached(St, fss[c].of) :
              /\ heap[f].kind = "file" /\ heap[g].kind = "file"
              /\ heap[f].name = heap[g].name
              /\ heap[g].ro /\ ~heap[f].ro
              /\ heap[f].content = "y" /\ heap[g].content = "x"

\* C9: on a file system constructed with useCaseSensitiveFileNames = false the
\* paths /A and /a denote the same entry: after addFile("/A", X), traversePath
\* ("/a") returns that File; with useCaseSensitiveFileNames = true they denote
\* different entries and traversePath("/a") is absent.
C9_CaseSensitivityPolicy ==
    \A fs \in FsIds :
        LET r == FsAddFile(St, fs, PAup, "x")
            t == traversePath(r.S, fs, PA, FALSE)
        IN  ( /\ traversePath(St, fs, PA, FALSE).ret = 0
              /\ traversePath(St, fs, PAup, FALSE).ret = 0
              /\ ~r.threw /\ r.ret # 0 )
            => IF fss[fs].ucs THEN t.ret = 0 ELSE t.ret = r.ret

\* names a and b are equal under the case-sensitivity policy of a file system:
\* exactly equal when it is case sensitive, equal ignoring letter case otherwise
PolicyEqual(useCaseSensitiveFileNames, a, b) ==
    IF useCaseSensitiveFileNames THEN a = b ELSE toUpperCase(a) = toUpperCase(b)

\* C10: in every reachable state no container has two children whose names are
\* equal under the case-sensitivity policy of the file system that owns it.
C10_NoTwoChildrenNameEqual ==
    \A d \in Objs :
        \A i, j \in 1..Len(heap[d].entries) :
            i # j => ~PolicyEqual(fss[heap[d].fs].ucs,
                                  heap[heap[d].entries[i]].name,
                                  heap[heap[d].entries[j]].name)

\* C11: traversePath(p) is absent whenever a component of p before the last is
\* missing or names a File: when /a is missing or a File, traversePath("/a/b")
\* is absent and fileExists("/a/b") is false; traversePath never raises.
C11_TraverseThroughFileIsAbsent ==
    \A fs \in FsIds :
        LET a == traversePath(St, fs, PA, FALSE)
            t == traversePath(St, fs, PAB, FALSE)
        IN  /\ ~t.threw /\ ~a.threw
            /\ (a.ret = 0 \/ IsFile(a.S.heap[a.ret]))
               => (t.ret = 0 /\ ~fileExists(St, fs, PAB))

\* the containers above entry e, up to the root
RECURSIVE Above(_, _)
Above(S, e) ==
    IF S.heap[e].parent = 0 THEN {} ELSE {S.heap[e].parent} \cup Above(S, S.heap[e].parent)

\* C12: fs.addDirectory(path, resolver) creates every missing directory above
\* the leaf as a plain directory without resolver, one that lists nothing but
\* the directory created in it, and gives the resolver only to the leaf, when it
\* creates the leaf; when a component of the path exists and
\* is not a directory it returns undefined.
C12_ResolverOnlyOnLeaf ==
    \A fs \in FsIds : \A p \in {PA, PAB} :
        LET r == FsAddDirectory(St, fs, p, TRUE) IN
        /\ (~r.threw /\ traversePath(St, fs, PRoot, FALSE).ret = 0) =>
              /\ r.ret # 0 /\ r.S.heap[r.ret].resolver
              /\ \A e \in Above(r.S, r.ret) :
                     Len(entries(r.S, e).heap[e].entries) = 1
        /\ (~r.threw /\ fileExists(St, fs, PA)) => r.ret = 0

\* C13: a directory symlink s that resolves to the directory t reads as t:
\* s.getFileSystemEntries() and s.getFileSystemEntry(n) return the children of
\* t, traversePath through s finds the children of t, and after s.addFile(n, c)
\* returned a File, s.getFile(n) returns that File.
C13_DirectorySymlinkReadsTarget ==
    \A l \in LinkObjs :
        LET t == targetDirectory(St, l)
            S1 == entries(entries(t.S, l), t.ret)
            fs == heap[l].fs
        IN  (heap[l].kind = "dlink" /\ t.ret # 0) =>
              /\ S1.heap[l].entries = S1.heap[t.ret].entries
              /\ \A n \in ProbeNames :
                    LET child == getFileSystemEntry(S1, t.ret, n).ret
                        a == DirAddFile(S1, l, n, "y")
                    IN  /\ getFileSystemEntry(S1, l, n).ret = child
                        /\ traversePath(S1, fs, combine(path(S1, l), n), FALSE).ret = child
                        /\ (~a.threw /\ a.ret # 0) =>
                              getFileSystemEntry(a.S, l, n).ret = a.ret

\* C14: relative(from, to, ignoreCase) raises when from or to is not absolute,
\* that is when its root has length zero, and returns a path without raising
\* when both are absolute.
C14_RelativeRaisesUnlessAbsolute ==
    call.returned =>
        (call.result.threw <=>
            (getRootLength(call.from) = 0 \/ getRootLength(call.to) = 0))

\* the length of the longest common prefix of two component lists, components
\* being compared exactly or, with ignoreCase, without regard to letter case
RECURSIVE CommonPrefix(_, _, _)
CommonPrefix(a, b, ignoreCase) ==
    IF a # <<>> /\ b # <<>> /\ PolicyEqual(~ignoreCase, Head(a), Head(b))
    THEN 1 + CommonPrefix(Tail(a), Tail(b), ignoreCase)
    ELSE 0

\* C15: for absolute from and to, relative(from, to, ignoreCase) is one ".."
\* for each component of from beyond the longest common prefix of components,
\* followed by the remaining components of to, all joined with "/";
\* relative("/a/b", "/a/c/d", false) is "../c/d".
C15_RelativeIsUpsThenRest ==
    LET fromComponents == parse(call.from)
        toComponents == parse(call.to)
        common == CommonPrefix(fromComponents, toComponents, call.ignoreCase)
        ups == [k \in 1..(Len(fromComponents) - common) |-> <<".", ".">>]
    IN  (call.returned /\ getRootLength(call.from) # 0 /\ getRootLength(call.to) # 0) =>
            /\ ~call.result.threw
            /\ call.result.value = Join(ups \o SubSeq(toComponents, common + 1, Len(toComponents)))

\* C16: s.isBroken of a symlink s is true exactly when resolving s.target,
\* following chained symlinks under the cycle guard, yields no entry; when the
\* resolution yields some entry, isBroken is false.
C16_BrokenIffUnresolved ==
    \A l \in LinkObjs :
        isBroken(St, l) <=>
            findTarget(St, heap[l].fs, heap[l].target, {}, Len(heap) + 1).ret = 0

\* entry e of state S with entry x left out of its listing; whether its
\* children were read yet is not part of it
Except(S, e, x) ==
    [S.heap[e] EXCEPT !.entries = SelectSeq(@, LAMBDA c : c # x), !.mat = TRUE]

\* addFile(p, "y") and then removeFile(p) in fs leave p absent, its directory
\* in place and every entry but the removed one as it was after addFile
AddThenRemove(fs, p) ==
    LET a == FsAddFile(St, fs, p, "y")
        r == FsRemove(a.S, fs, p, FALSE)
    IN  (~a.threw /\ a.ret # 0 /\ ~r.threw /\ r.ok) =>
          /\ traversePath(r.S, fs, p, FALSE).ret = 0
          /\ directoryExists(r.S, fs, dirname(p))
          /\ Reached(r.S, fs) = Reached(a.S, fs) \ {a.ret}
          /\ \A e \in Reached(r.S, fs) : Except(r.S, e, a.ret) = Except(a.S, e, a.ret)

\* C17: for any path p, after addFile(p, c) returned a File and removeFile(p)
\* returned true, traversePath(p) is absent, traversePath(dirname(p)) still
\* returns the parent Directory, and every other entry of the tree is unchanged.
C17_AddThenRemoveFile ==
    \A fs \in FsIds : \A p \in ProbePaths \cup {PAup, PAB, PASlash} : AddThenRemove(fs, p)

\* C18: addFile creates and does not overwrite: when a File exists at path p
\* (the directory of p exists and p names a File) with content c1, addFile(p,
\* c2) returns that same File, its content is still c1, and no entry is added
\* to or removed from the tree.
C18_AddFileKeepsExistingFile ==
    \A fs \in FsIds : \A p \in ProbePaths \cup {PAup, PAB} :
        LET t == traversePath(St, fs, p, FALSE)
            a == FsAddFile(St, fs, p, "y")
        IN  (directoryExists(St, fs, dirname(p)) /\ fileExists(St, fs, p) /\ ~a.threw) =>
              /\ a.ret = t.ret
              /\ FsView(a.S, fs) = FsView(St, fs)

\* C19: an instance is materialized at most once: resolver.getEntries is
\* invoked at most once for a directory and the content resolver at most once
\* for a file, also when it returns undefined; a directory whose children are
\* materialized holds neither a resolver nor a shadow reference.
C19_MaterializedAtMostOnce ==
    \A e \in Objs :
        /\ heap[e].calls <= 1
        /\ (IsDir(heap[e]) /\ heap[e].mat) => (~heap[e].resolver /\ heap[e].shadow = 0)

\* a directory listed from its resolver and a file whose resolver was called
\* and returned undefined
C19_Witness ==
    \E d \in DirObjs, f \in FileObjs :
        /\ heap[d].calls = 1 /\ heap[d].mat /\ heap[d].entries # <<>>
        /\ heap[f].calls = 1 /\ heap[f].content = NoContent

\* C20: fs.clone() copies no child data and performs no I/O: it invokes no
\* resolver, materializes no directory and no file of the original or of the
\* clone, and every directory that was not materialized before it is not
\* materialized after it.
C20_CloneMaterializesNothing ==
    \A fs \in FsIds :
        LET r == FsClone(St, fs)
            created == (Len(heap) + 1)..Len(r.S.heap)
        IN  /\ ~r.threw
            /\ \A e \in Objs : r.S.heap[e] = heap[e]
            /\ Cardinality(created) <= 2
            /\ \A e \in created :
                  /\ r.S.heap[e].kind = "dir" /\ r.S.heap[e].parent = 0
                  /\ ~r.S.heap[e].mat /\ r.S.heap[e].entries = <<>>
                  /\ r.S.heap[e].calls = 0 /\ r.S.heap[e].content = NoContent

\* a clone whose root was not read yet, of a file system that has a directory
\* whose resolver was not called and a directory with children
C20_Witness ==
    \E c \in FsIds : \E d, m \in DirObjs :
        /\ fss[c].of # 0 /\ fss[c].root # 0
        /\ ~heap[fss[c].root].mat /\ heap[fss[c].root].shadow = fss[fss[c].of].root
        /\ heap[d].fs = fss[c].of /\ heap[d].resolver /\ ~heap[d].mat /\ heap[d].calls = 0
        /\ heap[m].fs = fss[c].of /\ heap[m].mat /\ heap[m].entries # <<>>

\* C21: for a file symlink s whose target resolves, through any chain of
\* symlinks, to a File t, reading s.content returns t.content and assigning
\* s.content = v sets t.content to v; when the chain is unresolved or cyclic,
\* reading s.content returns undefined and assigning it changes no entry.
C21_FileSymlinkContentIsTargets ==
    \A l \in LinkObjs :
        LET fs == heap[l].fs
            r == findTarget(St, fs, heap[l].target, {}, Len(heap) + 1)
        IN  heap[l].kind = "flink" =>
              /\ (r.ret # 0 /\ IsFile(r.S.heap[r.ret])) =>
                    /\ FileGetContent(St, l).value = FileGetContent(r.S, r.ret).value
                    /\ \A v \in ProbeContents :
                          LET w == FileSetContent(St, l, v) IN
                          ~w.threw => /\ FileGetContent(w.S, r.ret).value = v
                                      /\ FileGetContent(w.S, l).value = v
              /\ r.ret = 0 =>
                    /\ FileGetContent(St, l).value = NoContent
                    /\ \A v \in ProbeContents :
                          LET w == FileSetContent(St, l, v) IN
                          ~w.threw /\ FsView(w.S, fs) = FsView(St, fs)

\* a file symlink whose target is another symlink that leads to a File which
\* was written through a symlink
C21_Witness ==
    \E l, m \in LinkObjs : \E t \in FileObjs :
        /\ l # m /\ heap[l].kind = "flink" /\ heap[t].kind = "file"
        /\ traversePath(St, heap[l].fs, heap[l].target, FALSE).ret = m
        /\ findTarget(St, heap[l].fs, heap[l].target, {}, Len(heap) + 1).ret = t
        /\ heap[t].content = "y"

\* C22: the built-in baseline is constructed once: the first getBuiltLocal()
\* constructs the file system, adds the resolver-backed directory and freezes
\* it; every later call returns the identical instance without constructing a
\* file system or adding anything; every instance returned is read-only.
C22_BuiltLocalOnce ==
    \A u \in BOOLEAN :
        LET r == getBuiltLocal(St, builtLocal, u)
            again == getBuiltLocal(r.S, r.ret, ~u)
        IN  /\ ~r.threw /\ r.ret \in 1..Len(r.S.fss) /\ r.S.fss[r.ret].ro
            /\ builtLocal # 0 => (r.ret = builtLocal /\ r.S = St)
            /\ builtLocal = 0 => /\ r.ret = Len(fss) + 1
                                  /\ Len(r.S.fss) = Len(fss) + 1
                                  /\ directoryExists(r.S, r.ret, PR)
            /\ again.ret = r.ret /\ again.S = r.S

\* getBuiltLocal() returned the baseline, and a clone of it was made and
\* written while the baseline stayed frozen
C22_Witness ==
    /\ builtLocal # 0
    /\ fss[builtLocal].ro
    /\ directoryExists(St, builtLocal, PR)
    /\ \E c \in FsIds : fss[c].of = builtLocal /\ fileExists(St, c, PA)

\* C23: for every path p over the separators "/" and "\", the dot and name
\* characters (the absolute paths, those with a root, among them), normalize
\* is idempotent: normalize(normalize(p)) is normalize(p).
C23_NormalizeIdempotent ==
    call.returned => normalize(call.result.value) = call.result.value

\* normalize returned a path that differs from its argument, which held a
\* backslash, a parent reference and a trailing separator
C23_Witness ==
    /\ call.returned
    /\ call.from = <<"\\", "a", "/", ".", ".", "/">>
    /\ call.result.value = <<"/">>

\* C24: exists tracks presence in the tree: an entry that is still a child of
\* its parent, as all its ancestors are of theirs, has exists true, and once
\* removeFile or removeDirectory removed the entry or one of its ancestors its
\* exists is false.
C24_ExistsTracksPresence ==
    \A fs \in FsIds :
        /\ \A e \in Reached(St, fs) : exists(St, e).ok
        /\ \A p \in ProbePaths \cup {PAB} : \A wantDir \in BOOLEAN :
               LET r == FsRemove(St, fs, p, wantDir) IN
               (~r.threw /\ r.ok) =>
                   \A e \in Reached(St, fs) \ Reached(r.S, fs) : ~exists(r.S, e).ok

\* C25: a write to the content of a File detaches it from its source: after
\* f.content = v on a File f that is not frozen and not a symlink (a clone whose
\* content was not read yet and v = undefined included), every later read of
\* f.content returns v, whatever the file it was cloned from holds or is
\* assigned, and whatever its resolver.
C25_WriteDetaches ==
    \A f \in FileObjs : \A v \in ProbeContents \cup {NoContent} :
        LET w == FileSetContent(St, f, v)
            Later == {w.S} \cup {FileSetContent(w.S, g, "z").S :
                                    g \in {h \in FileObjs \ {f} : heap[h].kind = "file"}}
        IN  (heap[f].kind = "file" /\ ~heap[f].ro) =>
              /\ ~w.threw
              /\ \A S1 \in Later :
                    LET first == FileGetContent(S1, f)
                        second == FileGetContent(first.S, f)
                    IN  first.value = v /\ second.value = v

\* C26: children materialized after their parent was frozen inherit the
\* frozen state: when a directory is read-only at the moment its children are
\* first materialized, from a resolver or from the directory it shadows, every
\* child created is read-only; and the root directory a file system creates
\* after the file system was frozen is read-only.
C26_LazyChildrenInheritFrozen ==
    /\ \A d \in DirObjs :
          LET S1 == entries(St, d)
              es == S1.heap[d].entries
          IN  (heap[d].ro /\ ~heap[d].mat) => \A k \in 1..Len(es) : S1.heap[es[k]].ro
    /\ \A fs \in FsIds :
          LET rt == root(St, fs) IN
          (fss[fs].ro /\ fss[fs].root = 0) => rt.S.heap[rt.ret].ro

\* a frozen resolver-backed directory whose only call of the resolver made a
\* read-only file, and a frozen directory of a clone whose listing holds a
\* read-only clone; no action freezes a file or a listed directory
C26_Witness ==
    /\ \E d \in DirObjs : \E k \in 1..Len(heap[d].entries) :
          /\ heap[d].ro /\ heap[d].calls = 1
          /\ heap[heap[d].entries[k]].kind = "file" /\ heap[heap[d].entries[k]].ro
    /\ \E d \in DirObjs : \E k \in 1..Len(heap[d].entries) :
          /\ heap[d].ro /\ heap[d].calls = 0 /\ fss[heap[d].fs].of # 0
          /\ heap[heap[d].entries[k]].kind = "file" /\ heap[heap[d].entries[k]].ro

\* the states every operation of a caller leaves: the mutators, the reads, the
\* traversals, clone and makeReadOnly
After ==
    UNION {{r.S : r \in Mutations(St, fs)}
           \cup {traversePath(St, fs, p, follow).S : p \in ProbePaths, follow \in BOOLEAN}
           \cup {FsClone(St, fs).S, FsMakeReadOnly(St, fs)} : fs \in FsIds}
    \cup {makeReadOnly(St, e) : e \in Objs}
    \cup {entries(St, d) : d \in DirObjs}
    \cup {FileGetContent(St, f).S : f \in FileObjs}

\* C27: freezing is one-way: an entry or file system whose isReadOnly is true
\* has isReadOnly true after every subsequent operation.
C27_FrozenStaysFrozen ==
    \A S1 \in After :
        /\ \A e \in Objs : heap[e].ro => S1.heap[e].ro
        /\ \A fs \in FsIds : fss[fs].ro => S1.fss[fs].ro

\* a frozen file system, a frozen directory and a file below it that is not
\* frozen: some operation changes the state and some changes the listing of a
\* directory
C27_Witness ==
    /\ \E fs \in FsIds : fss[fs].ro
    /\ \E d \in DirObjs : heap[d].ro /\ \E f \in Below(St, d) : ~heap[f].ro
    /\ \E S1 \in After : \E d \in DirObjs : S1.heap[d].entries # heap[d].entries

\* C28: traversePath(p, {followSymlinks: true}) never returns a symlink: it
\* returns undefined or an entry that is neither a VirtualFileSymlink nor a
\* VirtualDirectorySymlink, and when the entry at p is not a symlink it returns
\* the entry traversePath(p) returns without the option.
C28_FollowNeverReturnsSymlink ==
    \A fs \in FsIds : \A p \in {PRoot, PA, PAB, PS, PSB, PT} :
        LET followed == traversePath(St, fs, p, TRUE)
            plain == traversePath(St, fs, p, FALSE)
        IN  /\ followed.ret # 0 => ~IsLink(followed.S.heap[followed.ret])
            /\ (plain.ret # 0 /\ ~IsLink(plain.S.heap[plain.ret])) => followed.ret = plain.ret

\* /t is a symlink to the symlink /s: with the option traversePath("/t") returns
\* the entry at the end of the chain, which is the entry it returns for "/a"
C28_Witness ==
    \E fs \in FsIds :
        LET t == traversePath(St, fs, PT, FALSE)
            s == traversePath(St, fs, PS, FALSE)
            followed == traversePath(St, fs, PT, TRUE)
        IN  /\ t.ret # 0 /\ IsLink(heap[t.ret]) /\ heap[t.ret].target = PS
            /\ s.ret # 0 /\ IsLink(heap[s.ret])
            /\ followed.ret # 0 /\ followed.ret \notin {t.ret, s.ret}
            /\ followed.ret = traversePath(St, fs, PA, TRUE).ret

=============================================================================
